---- MODULE Spec2Model ----
(***************************************************************************)
(* Model of src/agent-service/app.py: the MCP tool registry (MCPClient),   *)
(* the Bedrock conversation loop (BedrockAgent.run) and the two HTTP       *)
(* handlers that use them (list_tools, run_agent).                         *)
(*                                                                         *)
(* A handler invocation is a task.  Each task has its own locals (the      *)
(* Python locals of the coroutine); mcp_client's tools_cache and           *)
(* tool_to_server are shared by all tasks.  A step of a task runs from one *)
(* suspension point (an await on network I/O) to the next.                 *)
(***************************************************************************)
EXTENDS Integers, Sequences, FiniteSets, TLC

\* Bounds of the model.
MaxTurns == 2
MaxBlocks == 3
MaxTools == 2
MaxTasks == 2

\* Python's None / an optional value, as a sequence of at most one element.
None == <<>>
Some(x) == <<x>>

SeqsUpTo(S, n) == UNION {[1..k -> S] : k \in 0..n}

Tasks == 1..MaxTasks

\* ------------------------------------------------------------ configuration

\* MCP_SERVERS.items(): the configured endpoints in dict (insertion) order.
ServerNames == <<"filesystem", "calculator">>

MCP_SERVERS ==
  [filesystem |-> "http://mcp-filesystem:3001",
   calculator |-> "http://mcp-calculator:3002"]

ServerUrls == {MCP_SERVERS[s] : s \in DOMAIN MCP_SERVERS}

\* ------------------------------------------------------------ environment

\* Tool names a tool server may declare.
ToolNames == {"read", "calc"}

\* One entry of a "tools" payload of server s: a well-formed tool definition,
\* or an entry without "name" (tool["name"] raises KeyError).  The
\* description names the declaring server, so a catalog entry shows its origin.
ToolEntries(s) ==
  {[name |-> n, description |-> s] : n \in ToolNames} \cup {[description |-> s]}

\* What GET {server_url}/tools can do: raise (network error), answer a
\* non-200 status, answer 200 with a body that is not JSON, or answer 200 with
\* a "tools" list.
ListReplies(s) ==
  {[kind |-> "neterr"], [kind |-> "status"], [kind |-> "badjson"]}
  \cup {[kind |-> "ok", tools |-> ts] : ts \in SeqsUpTo(ToolEntries(s), MaxTools)}

\* The endpoint replies used with the conversation loop: each endpoint either
\* fails or declares the tool "calc", so that both may declare it.
RunListReplies(s) ==
  IF s = "filesystem"
  THEN {[kind |-> "neterr"],
        [kind |-> "ok", tools |-> <<[name |-> "calc", description |-> s]>>]}
  ELSE {[kind |-> "status"],
        [kind |-> "ok", tools |-> <<[name |-> "calc", description |-> s]>>]}

\* The user message of a request.
UserMessages == {"what is 6*7?"}

\* max_turns of a request that passes validation (Optional[int]): null, or
\* an integer, here zero, one or the largest; an absent max_turns is the
\* default and is among the integers.
MaxTurnsInputs == {None} \cup {Some(n) : n \in {0, 1, MaxTurns}}

\* The shape of one content block of an assistant message: a text block, a
\* toolUse block naming "calc" or "nope", or a toolUse block without "name".
BlockShapes == {"text", "calc", "nope", "noname"}

Digit == <<"1", "2", "3", "4", "5", "6", "7", "8", "9">>

\* The content block of shape sh at position i of the reply to call number
\* turn: the backend gives each toolUse block an id of its own, the text
\* tells the position, and all tool calls have the same arguments.
Block(sh, turn, i) ==
  IF sh = "text" THEN [text |-> Digit[i]]
  ELSE IF sh = "noname"
  THEN [toolUse |-> [input |-> [a |-> 6, b |-> 7], toolUseId |-> 10 * turn + i]]
  ELSE [toolUse |-> [name |-> sh, input |-> [a |-> 6, b |-> 7],
                     toolUseId |-> 10 * turn + i]]

Content(shapes, turn) == [i \in 1..Len(shapes) |-> Block(shapes[i], turn, i)]

\* response.get("stopReason"): a missing stop reason reads as None, which the
\* loop formats as "None".
StopReasons == {"end_turn", "tool_use", "max_tokens", "content_filtered", "None"}

\* The shapes of the messages the backend returns with stop reason tool_use:
\* at most budget blocks; a toolUse block without "name", if any, is the last
\* block (run reads no block after it).
MessageShapes(budget) ==
  {sh \in SeqsUpTo(BlockShapes, budget) :
     \A i \in DOMAIN sh : sh[i] = "noname" => i = Len(sh)}

\* The shapes of the messages the backend returns with stop reason end_turn:
\* run reads only their text blocks, so their toolUse blocks are all alike.
FinalShapes(budget) == SeqsUpTo({"text", "calc"}, budget)

\* The shapes of the messages the backend returns with any other stop reason:
\* run reads nothing of their content, so a few shapes stand for all: no
\* block, a toolUse block, a text block before a toolUse block.
IgnoredShapes(budget) ==
  {sh \in {<<>>, <<"calc">>, <<"text", "calc">>} : Len(sh) <= budget}

\* What bedrock.converse can do on call number turn: raise ClientError, raise
\* another exception (transport), return a response without "output"
\* (response["output"] raises KeyError), or return a stop reason and a message
\* of at most budget blocks.
ConverseReplies(turn, budget) ==
  {[fault |-> "ClientError", text |-> "throttled"],
   [fault |-> "Exception", text |-> "connect timeout"],
   [fault |-> "KeyError", text |-> "'output'"]}
  \cup {[fault |-> "", stopReason |-> "tool_use",
         message |-> [role |-> "assistant", content |-> Content(shapes, turn)]] :
          shapes \in MessageShapes(budget)}
  \cup {[fault |-> "", stopReason |-> "end_turn",
         message |-> [role |-> "assistant", content |-> Content(shapes, turn)]] :
          shapes \in FinalShapes(budget)}
  \cup {[fault |-> "", stopReason |-> sr,
         message |-> [role |-> "assistant", content |-> Content(shapes, turn)]] :
          sr \in StopReasons \ {"tool_use", "end_turn"},
          shapes \in IgnoredShapes(budget)}

\* What POST {server_url}/execute can do: answer 200 with a result, answer a
\* non-200 status, or raise (transport failure, timeout).
ExecuteReplies ==
  {[kind |-> "ok", result |-> "42"],
   [kind |-> "status", status |-> "500", text |-> "boom"],
   [kind |-> "raise", text |-> "read timeout"]}

VARIABLES
  tools_cache,      \* mcp_client.tools_cache: None or Some(list of tools)
  tool_to_server,   \* mcp_client.tool_to_server: tool name -> server url
  listCalls,        \* per endpoint, the GET /tools requests issued so far
  returned,         \* the set of catalogs fetch_all_tools has returned
  pc,               \* per task, where the handler is
  kind,             \* per task, "tools" (GET /tools) or "run" (POST /agent/run)
  all_tools,        \* per task, fetch_all_tools' local all_tools
  srv,              \* per task, position of fetch_all_tools' loop in MCP_SERVERS
  replies,          \* per task, the endpoint replies its fetch_all_tools has had
  messages,         \* per task, run's messages
  tools,            \* per task, the catalog fetch_all_tools returned to it
  tool_calls_log,   \* per task, run's tool_calls_log
  turns,            \* per task, run's turns
  max_turns,        \* per task, run's max_turns: None or Some(int)
  idx,              \* per task, position of the loop over output_message's content
  tool_results,     \* per task, run's tool_results
  backendCalls,     \* per task, the bedrock.converse calls made
  replyLog,         \* per task, how each bedrock.converse call ended
  execReqs,         \* per task, the POST /execute requests sent
  outcome,          \* per task, the return statement run left by
  http              \* per task, the handler's HTTP response: None or Some(..)

regVars == <<tools_cache, tool_to_server, listCalls, returned>>
fetchVars == <<all_tools, srv, replies>>
runVars == <<messages, tool_calls_log, turns, max_turns, idx, tool_results,
             backendCalls, replyLog, execReqs, outcome>>
vars == <<regVars, pc, kind, fetchVars, tools, runVars, http>>

\* --------------------------------------------------------------- MCPClient

\* MCPClient.__init__ and the state of a task that has not started.
Init ==
  /\ tools_cache = None
  /\ tool_to_server = <<>>
  /\ listCalls = [s \in DOMAIN MCP_SERVERS |-> 0]
  /\ returned = {}
  /\ pc = [t \in Tasks |-> "new"]
  /\ kind = [t \in Tasks |-> ""]
  /\ all_tools = [t \in Tasks |-> <<>>]
  /\ srv = [t \in Tasks |-> 0]
  /\ replies = [t \in Tasks |-> <<>>]
  /\ messages = [t \in Tasks |-> <<>>]
  /\ tools = [t \in Tasks |-> <<>>]
  /\ tool_calls_log = [t \in Tasks |-> <<>>]
  /\ turns = [t \in Tasks |-> 0]
  /\ max_turns = [t \in Tasks |-> None]
  /\ idx = [t \in Tasks |-> 0]
  /\ tool_results = [t \in Tasks |-> <<>>]
  /\ backendCalls = [t \in Tasks |-> 0]
  /\ replyLog = [t \in Tasks |-> <<>>]
  /\ execReqs = [t \in Tasks |-> <<>>]
  /\ outcome = [t \in Tasks |-> ""]
  /\ http = [t \in Tasks |-> None]

\* dict.get(key, default).
Get(d, key, default) == IF key \in DOMAIN d THEN d[key] ELSE default

\* The Bedrock tool definition built from an MCP tool definition.
BedrockTool(tool) ==
  [toolSpec |->
     [name |-> tool.name,
      description |-> Get(tool, "description", ""),
      inputSchema |->
        [json |-> Get(tool, "inputSchema",
                      [type |-> "object", properties |-> <<>>, required |-> <<>>])]]]

\* ConvertTools keeping the first server that declared a name
\* (tool_to_server.setdefault(name, server_url)).
RECURSIVE ConvertToolsFirstWins(_, _, _, _)
ConvertToolsFirstWins(ts, server_url, acc, t2s) ==
  IF ts = <<>> THEN [all_tools |-> acc, tool_to_server |-> t2s, raised |-> FALSE]
  ELSE LET tool == Head(ts) IN
       IF "name" \notin DOMAIN tool
       THEN [all_tools |-> acc, tool_to_server |-> t2s, raised |-> TRUE]
       ELSE ConvertToolsFirstWins(Tail(ts), server_url,
                                  Append(acc, BedrockTool(tool)),
                                  t2s @@ (tool.name :> server_url))

\* The loop over tools_data["tools"]: each tool is appended to all_tools and
\* mapped to its server before the next one is read; an entry without "name"
\* raises KeyError, which ends the loop and leaves what was done in place.
RECURSIVE ConvertTools(_, _, _, _)
ConvertTools(ts, server_url, acc, t2s) ==
  IF ts = <<>> THEN [all_tools |-> acc, tool_to_server |-> t2s, raised |-> FALSE]
  ELSE LET tool == Head(ts) IN
       IF "name" \notin DOMAIN tool
       THEN [all_tools |-> acc, tool_to_server |-> t2s, raised |-> TRUE]
       ELSE ConvertTools(Tail(ts), server_url,
                         Append(acc, BedrockTool(tool)),
                         (tool.name :> server_url) @@ t2s)

\* The body of the try block for one endpoint, given its reply.
HandleListReply(reply, server_url, acc, t2s) ==
  IF reply.kind = "ok"
  THEN ConvertTools(reply.tools, server_url, acc, t2s)
  ELSE [all_tools |-> acc, tool_to_server |-> t2s, raised |-> TRUE]

\* CacheHit as a truth test (if self.tools_cache:): an empty catalog is no hit.
CacheHitIfTruthy == tools_cache # None /\ tools_cache[1] # <<>>

\* The test at the head of fetch_all_tools: the cache is used when it is set.
CacheHit == tools_cache # None

\* The tools handler's response.
ToolsResponse(catalog) ==
  Some([status |-> 200, body |-> [tools |-> catalog, count |-> Len(catalog)]])

\* fetch_all_tools has returned catalog to task t: list_tools answers, run
\* goes on to its loop with an empty log and turns = 0.
FetchReturned(t, k, catalog) ==
  /\ tools' = [tools EXCEPT ![t] = catalog]
  /\ returned' = returned \cup {catalog}
  /\ IF k = "tools"
     THEN /\ pc' = [pc EXCEPT ![t] = "done"]
          /\ http' = [http EXCEPT ![t] = ToolsResponse(catalog)]
     ELSE /\ pc' = [pc EXCEPT ![t] = "loop"]
          /\ UNCHANGED http

\* The entry of fetch_all_tools for task t of kind k.
fetch_all_tools(t, k) ==
  IF CacheHit
  THEN /\ FetchReturned(t, k, tools_cache[1])
       /\ UNCHANGED <<fetchVars>>
  ELSE /\ pc' = [pc EXCEPT ![t] = "fetch"]
       /\ all_tools' = [all_tools EXCEPT ![t] = <<>>]
       /\ srv' = [srv EXCEPT ![t] = 1]
       /\ replies' = [replies EXCEPT ![t] = <<>>]
       /\ UNCHANGED <<tools, returned, http>>

\* Requests are handled one after the other: a request starts when no
\* handler is running, and takes the first task.
MayStart(t) == \A u \in Tasks : pc[u] = "new" /\ t <= u

\* The tools handler starts for task t and calls fetch_all_tools.
list_tools_start(t) ==
  /\ pc[t] = "new"
  /\ kind' = [kind EXCEPT ![t] = "tools"]
  /\ fetch_all_tools(t, "tools")
  /\ UNCHANGED <<tools_cache, tool_to_server, listCalls, runVars>>

\* GET /tools.
list_tools(t) == MayStart(t) /\ list_tools_start(t)

\* One iteration of the loop over MCP_SERVERS: GET {server_url}/tools and the
\* handling of its reply.
fetch_get(t, reply) ==
  /\ pc[t] = "fetch"
  /\ srv[t] <= Len(ServerNames)
  /\ LET server_name == ServerNames[srv[t]]
         server_url == MCP_SERVERS[server_name]
         r == HandleListReply(reply, server_url, all_tools[t], tool_to_server)
     IN /\ listCalls' = [listCalls EXCEPT ![server_name] = @ + 1]
        /\ all_tools' = [all_tools EXCEPT ![t] = r.all_tools]
        /\ tool_to_server' = r.tool_to_server
        /\ replies' = [replies EXCEPT ![t] = Append(@, reply)]
  /\ srv' = [srv EXCEPT ![t] = @ + 1]
  /\ UNCHANGED <<tools_cache, returned, pc, kind, tools, runVars, http>>

\* fetch_store caching a successful fetch only (if all_tools:
\* self.tools_cache = all_tools): an empty catalog is returned and not kept.
fetch_store_if_any(t) ==
  /\ pc[t] = "fetch"
  /\ srv[t] > Len(ServerNames)
  /\ tools_cache' = IF all_tools[t] # <<>> THEN Some(all_tools[t]) ELSE tools_cache
  /\ FetchReturned(t, kind[t], all_tools[t])
  /\ UNCHANGED <<tool_to_server, listCalls, kind, fetchVars, runVars>>

\* The end of fetch_all_tools: the cache is set and all_tools returned.
fetch_store(t) ==
  /\ pc[t] = "fetch"
  /\ srv[t] > Len(ServerNames)
  /\ tools_cache' = Some(all_tools[t])
  /\ FetchReturned(t, kind[t], all_tools[t])
  /\ UNCHANGED <<tool_to_server, listCalls, kind, fetchVars, runVars>>

\* The response is sent and the task's locals are discarded.
respond(t) ==
  /\ pc[t] = "done"
  /\ pc' = [pc EXCEPT ![t] = "new"]
  /\ kind' = [kind EXCEPT ![t] = ""]
  /\ all_tools' = [all_tools EXCEPT ![t] = <<>>]
  /\ srv' = [srv EXCEPT ![t] = 0]
  /\ replies' = [replies EXCEPT ![t] = <<>>]
  /\ messages' = [messages EXCEPT ![t] = <<>>]
  /\ tools' = [tools EXCEPT ![t] = <<>>]
  /\ tool_calls_log' = [tool_calls_log EXCEPT ![t] = <<>>]
  /\ turns' = [turns EXCEPT ![t] = 0]
  /\ max_turns' = [max_turns EXCEPT ![t] = None]
  /\ idx' = [idx EXCEPT ![t] = 0]
  /\ tool_results' = [tool_results EXCEPT ![t] = <<>>]
  /\ backendCalls' = [backendCalls EXCEPT ![t] = 0]
  /\ replyLog' = [replyLog EXCEPT ![t] = <<>>]
  /\ execReqs' = [execReqs EXCEPT ![t] = <<>>]
  /\ outcome' = [outcome EXCEPT ![t] = ""]
  /\ http' = [http EXCEPT ![t] = None]
  /\ UNCHANGED regVars

\* ------------------------------------------------------------ MCPClient.execute_tool

\* NotFoundPayload as a bare message instead of a JSON object.
NotFoundPlain(tool_name) == "Tool " \o tool_name \o " not found"

\* json.dumps of the three error payloads execute_tool builds.
NotFoundPayload(tool_name) == "{\"error\": \"Tool " \o tool_name \o " not found\"}"

StatusPayload(status, text) ==
  "{\"error\": \"Tool execution failed: " \o status \o "\", \"details\": \""
    \o text \o "\"}"

RaisedPayload(text) == "{\"error\": \"Tool execution error: " \o text \o "\"}"

\* tool_to_server.get(tool_name) found a server.
Routable(tool_name) ==
  tool_name \in DOMAIN tool_to_server /\ tool_to_server[tool_name] # ""

\* The POST {server_url}/execute request for a tool.
ExecuteRequest(tool_name, tool_input) ==
  [url |-> tool_to_server[tool_name],
   json |-> [tool |-> tool_name, arguments |-> tool_input]]

\* ExecuteResult passing on the body of a non-200 answer as it is, and the
\* text of an exception.
ExecuteResultPlain(reply) ==
  IF reply.kind = "ok" THEN reply.result ELSE reply.text

\* What execute_tool returns for the reply to its request.
ExecuteResult(reply) ==
  IF reply.kind = "ok" THEN reply.result
  ELSE IF reply.kind = "status" THEN StatusPayload(reply.status, reply.text)
  ELSE RaisedPayload(reply.text)

\* ------------------------------------------------------------ BedrockAgent.run

\* The first message of a conversation.
UserMessage(user_message) ==
  [role |-> "user", content |-> <<[text |-> user_message]>>]

\* TextContent building the text by prepending (text = block + text).
RECURSIVE TextContentReversed(_)
TextContentReversed(content) ==
  IF content = <<>> THEN ""
  ELSE TextContentReversed(Tail(content)) \o
         (IF "text" \in DOMAIN Head(content) THEN Head(content).text ELSE "")

\* The loop over the content of an end_turn message: the text blocks, joined.
RECURSIVE TextContent(_)
TextContent(content) ==
  IF content = <<>> THEN ""
  ELSE IF "text" \in DOMAIN Head(content)
       THEN Head(content).text \o TextContent(Tail(content))
       ELSE TextContent(Tail(content))

\* The entry appended to tool_calls_log for a toolUse block.
LogEntry(tool_use) ==
  [tool |-> tool_use.name, input |-> tool_use.input,
   tool_use_id |-> tool_use.toolUseId]

\* AppendLog as tool_calls_log.insert(0, entry): newest first.
PrependLog(log, entry) == <<entry>> \o log

\* tool_calls_log.append(entry).
AppendLog(log, entry) == Append(log, entry)

\* The block appended to tool_results for a toolUse block and its result.
ToolResult(tool_use, result) ==
  [toolResult |-> [toolUseId |-> tool_use.toolUseId,
                   content |-> <<[text |-> result]>>]]

\* ToolResultMessage with the results in the order of arrival of a
\* concurrent dispatch, here the reverse of the order of the requests.
ToolResultMessageReordered(results) ==
  [role |-> "user",
   content |-> [i \in 1..Len(results) |-> results[Len(results) + 1 - i]]]

\* The message that carries a turn's tool results.
ToolResultMessage(results) == [role |-> "user", content |-> results]

\* LoopCond with <= for <: the loop body runs once more.
LoopCondOffByOne(n, limit) == n <= limit

\* The condition of run's while loop.
LoopCond(n, limit) == n < limit

\* run returns AgentResponse(response, turns=n, tool_calls=log) by the return
\* statement named oc, and run_agent returns it.
Return(t, response, n, log, oc) ==
  /\ pc' = [pc EXCEPT ![t] = "done"]
  /\ outcome' = [outcome EXCEPT ![t] = oc]
  /\ http' = [http EXCEPT ![t] =
       Some([status |-> 200,
             body |-> [response |-> response, turns |-> n, tool_calls |-> log]])]

\* The content blocks of the assistant messages of a history: the backend
\* returns at most MaxBlocks blocks in one conversation.
RECURSIVE AssistantBlocks(_)
AssistantBlocks(msgs) ==
  IF msgs = <<>> THEN 0
  ELSE AssistantBlocks(Tail(msgs)) +
       (IF Head(msgs).role = "assistant" THEN Len(Head(msgs).content) ELSE 0)

\* The message being processed in a tool_use turn.
output_message(t) == messages[t][Len(messages[t])]

\* run_agent_start with turns as a counter of the module, set to 0 by every
\* request.
run_agent_start_shared_turns(t, user_message, limit) ==
  /\ pc[t] = "new"
  /\ kind' = [kind EXCEPT ![t] = "run"]
  /\ messages' = [messages EXCEPT ![t] = <<UserMessage(user_message)>>]
  /\ max_turns' = [max_turns EXCEPT ![t] = limit]
  /\ turns' = [u \in Tasks |-> 0]
  /\ fetch_all_tools(t, "run")
  /\ UNCHANGED <<tools_cache, tool_to_server, listCalls, tool_calls_log,
                 idx, tool_results, backendCalls, replyLog, execReqs, outcome>>

\* The run handler starts for task t: run seeds the history and fetches the
\* catalog.
run_agent_start(t, user_message, limit) ==
  /\ pc[t] = "new"
  /\ kind' = [kind EXCEPT ![t] = "run"]
  /\ messages' = [messages EXCEPT ![t] = <<UserMessage(user_message)>>]
  /\ max_turns' = [max_turns EXCEPT ![t] = limit]
  /\ fetch_all_tools(t, "run")
  /\ UNCHANGED <<tools_cache, tool_to_server, listCalls, tool_calls_log, turns,
                 idx, tool_results, backendCalls, replyLog, execReqs, outcome>>

\* POST /agent/run.
run_agent(t, user_message, limit) ==
  MayStart(t) /\ run_agent_start(t, user_message, limit)

\* The while test with max_turns = None: int < None raises TypeError outside
\* run's try, and run_agent's except turns it into HTTP 500.
loop_type_error(t) ==
  /\ pc[t] = "loop"
  /\ max_turns[t] = None
  /\ pc' = [pc EXCEPT ![t] = "done"]
  /\ outcome' = [outcome EXCEPT ![t] = "Raised"]
  /\ http' = [http EXCEPT ![t] =
       Some([status |-> 500,
             detail |-> "'<' not supported between instances of 'int' and 'NoneType'"])]
  /\ UNCHANGED <<regVars, kind, fetchVars, tools, messages, tool_calls_log, turns,
                 max_turns, idx, tool_results, backendCalls, replyLog, execReqs>>

\* The while test fails: the return after the loop.
loop_exit(t) ==
  /\ pc[t] = "loop"
  /\ max_turns[t] # None
  /\ ~LoopCond(turns[t], max_turns[t][1])
  /\ Return(t, "Max turns reached", turns[t], tool_calls_log[t], "Exhausted")
  /\ UNCHANGED <<regVars, kind, fetchVars, tools, messages, tool_calls_log, turns,
                 max_turns, idx, tool_results, backendCalls, replyLog, execReqs>>

\* OnFault swallowing the error: the loop goes on to its next iteration.
OnFaultContinue(t, reply, n) ==
  UNCHANGED <<pc, outcome, http, messages, tool_calls_log, idx, tool_results,
              execReqs>>

\* OnFault reporting the turns before the increment.
OnFaultTurnsBefore(t, reply, n) ==
  /\ Return(t, (IF reply.fault = "ClientError" THEN "Bedrock API error: "
                ELSE "Agent error: ") \o reply.text,
            n - 1, tool_calls_log[t], "Aborted")
  /\ UNCHANGED <<messages, tool_calls_log, idx, tool_results, execReqs>>

\* The two except clauses of the loop body: the error is formatted and
\* returned with the turns and the log reached.
OnFault(t, reply, n) ==
  /\ Return(t, (IF reply.fault = "ClientError" THEN "Bedrock API error: "
                ELSE "Agent error: ") \o reply.text,
            n, tool_calls_log[t], "Aborted")
  /\ UNCHANGED <<messages, tool_calls_log, idx, tool_results, execReqs>>

\* ProcessBlocks with a cache of results: a call whose tool and arguments
\* are those of a call made before is answered without a request.
RECURSIVE ProcessBlocksCached(_, _, _, _)
ProcessBlocksCached(content, i, log, results) ==
  IF i > Len(content)
  THEN [status |-> "end", idx |-> i, log |-> log, results |-> results]
  ELSE IF "toolUse" \notin DOMAIN content[i]
  THEN ProcessBlocksCached(content, i + 1, log, results)
  ELSE LET tool_use == content[i].toolUse IN
       IF "name" \notin DOMAIN tool_use
       THEN [status |-> "raise", idx |-> i, log |-> log, results |-> results]
       ELSE IF /\ Routable(tool_use.name)
               /\ \A k \in DOMAIN log :
                    log[k].tool # tool_use.name \/ log[k].input # tool_use.input
       THEN [status |-> "await", idx |-> i,
             log |-> AppendLog(log, LogEntry(tool_use)), results |-> results]
       ELSE ProcessBlocksCached(
              content, i + 1, AppendLog(log, LogEntry(tool_use)),
              Append(results,
                     ToolResult(tool_use,
                                IF Routable(tool_use.name) THEN "42"
                                ELSE NotFoundPayload(tool_use.name))))

\* ProcessBlocks starting the dispatch of a tool without awaiting it
\* (asyncio.create_task): the loop goes on without the result.
RECURSIVE ProcessBlocksFireAndForget(_, _, _, _)
ProcessBlocksFireAndForget(content, i, log, results) ==
  IF i > Len(content)
  THEN [status |-> "end", idx |-> i, log |-> log, results |-> results]
  ELSE IF "toolUse" \notin DOMAIN content[i]
  THEN ProcessBlocksFireAndForget(content, i + 1, log, results)
  ELSE LET tool_use == content[i].toolUse IN
       IF "name" \notin DOMAIN tool_use
       THEN [status |-> "raise", idx |-> i, log |-> log, results |-> results]
       ELSE IF Routable(tool_use.name)
       THEN ProcessBlocksFireAndForget(content, i + 1,
                                       AppendLog(log, LogEntry(tool_use)), results)
       ELSE ProcessBlocksFireAndForget(
              content, i + 1, AppendLog(log, LogEntry(tool_use)),
              Append(results, ToolResult(tool_use, NotFoundPayload(tool_use.name))))

\* The loop over output_message's content from block i on, up to its next
\* await: a block without "toolUse" is skipped; a toolUse block is logged,
\* then dispatched: a tool that is not in tool_to_server is answered at once
\* by the not-found payload, another one stops the loop at the await of its
\* execute request ("await"); reading the name of a toolUse block without
\* "name" raises KeyError ("raise"); the loop ends after the last block ("end").
RECURSIVE ProcessBlocks(_, _, _, _)
ProcessBlocks(content, i, log, results) ==
  IF i > Len(content)
  THEN [status |-> "end", idx |-> i, log |-> log, results |-> results]
  ELSE IF "toolUse" \notin DOMAIN content[i]
  THEN ProcessBlocks(content, i + 1, log, results)
  ELSE LET tool_use == content[i].toolUse IN
       IF "name" \notin DOMAIN tool_use
       THEN [status |-> "raise", idx |-> i, log |-> log, results |-> results]
       ELSE IF Routable(tool_use.name)
       THEN [status |-> "await", idx |-> i,
             log |-> AppendLog(log, LogEntry(tool_use)), results |-> results]
       ELSE ProcessBlocks(content, i + 1, AppendLog(log, LogEntry(tool_use)),
                          Append(results,
                                 ToolResult(tool_use, NotFoundPayload(tool_use.name))))

\* Task t runs the loop over the content of the last message of msgs from
\* block i on, with the tool results it has and turns = n: it sends the next
\* execute request and awaits its reply, or returns from the except clause,
\* or appends the tool results to the history and goes back to the while loop.
ToolUseLoop(t, msgs, i, results, n) ==
  LET content == msgs[Len(msgs)].content
      r == ProcessBlocks(content, i, tool_calls_log[t], results)
  IN /\ tool_calls_log' = [tool_calls_log EXCEPT ![t] = r.log]
     /\ tool_results' = [tool_results EXCEPT ![t] = r.results]
     /\ idx' = [idx EXCEPT ![t] = r.idx]
     /\ IF r.status = "await"
        THEN /\ execReqs' = [execReqs EXCEPT ![t] =
                  Append(@, ExecuteRequest(content[r.idx].toolUse.name,
                                           content[r.idx].toolUse.input))]
             /\ pc' = [pc EXCEPT ![t] = "execute"]
             /\ messages' = [messages EXCEPT ![t] = msgs]
             /\ UNCHANGED <<outcome, http>>
        ELSE IF r.status = "raise"
        THEN /\ Return(t, "Agent error: 'name'", n, r.log, "Aborted")
             /\ messages' = [messages EXCEPT ![t] = msgs]
             /\ UNCHANGED execReqs
        ELSE /\ messages' = [messages EXCEPT ![t] =
                               Append(msgs, ToolResultMessage(r.results))]
             /\ pc' = [pc EXCEPT ![t] = "loop"]
             /\ UNCHANGED <<execReqs, outcome, http>>

\* UnexpectedResponse formatted as the errors are.
UnexpectedAsError(stop_reason) == "Agent error: " \o stop_reason

\* The response of the branch of the other stop reasons.
UnexpectedResponse(stop_reason) == "Unexpected stop reason: " \o stop_reason

\* IsToolUse taking a truncated reply for a tool_use reply as well
\* (stop_reason in ("tool_use", "max_tokens")).
IsToolUseOrTruncated(stop_reason) == stop_reason \in {"tool_use", "max_tokens"}

\* The test of the tool_use branch.
IsToolUse(stop_reason) == stop_reason = "tool_use"

\* HandleReply appending the assistant message in the tool_use branch only: a
\* terminal turn leaves the history as it was.
HandleReplyAppendOnToolUse(t, reply, n) ==
  IF reply.fault # ""
  THEN OnFault(t, reply, n)
  ELSE IF IsToolUse(reply.stopReason)
       THEN ToolUseLoop(t, Append(messages[t], reply.message), 1, <<>>, n)
       ELSE /\ Return(t,
                      IF reply.stopReason = "end_turn"
                      THEN TextContent(reply.message.content)
                      ELSE IF reply.stopReason = "max_tokens"
                      THEN "Response truncated due to max tokens"
                      ELSE UnexpectedResponse(reply.stopReason),
                      n, tool_calls_log[t],
                      IF reply.stopReason = "end_turn" THEN "Completed"
                      ELSE IF reply.stopReason = "max_tokens" THEN "Truncated"
                      ELSE "Unrecognized")
            /\ UNCHANGED <<messages, tool_calls_log, idx, tool_results, execReqs>>

\* What run does with the reply of bedrock.converse, turns being already
\* incremented to n.
HandleReply(t, reply, n) ==
  IF reply.fault # ""
  THEN OnFault(t, reply, n)
  ELSE LET msgs == Append(messages[t], reply.message) IN
       IF IsToolUse(reply.stopReason)
       THEN ToolUseLoop(t, msgs, 1, <<>>, n)
       ELSE /\ messages' = [messages EXCEPT ![t] = msgs]
            /\ Return(t,
                      IF reply.stopReason = "end_turn"
                      THEN TextContent(reply.message.content)
                      ELSE IF reply.stopReason = "max_tokens"
                      THEN "Response truncated due to max tokens"
                      ELSE UnexpectedResponse(reply.stopReason),
                      n, tool_calls_log[t],
                      IF reply.stopReason = "end_turn" THEN "Completed"
                      ELSE IF reply.stopReason = "max_tokens" THEN "Truncated"
                      ELSE "Unrecognized")
            /\ UNCHANGED <<tool_calls_log, idx, tool_results, execReqs>>

\* The toolConfig argument run gives bedrock.converse: the catalog with the
\* automatic tool choice, and None when the catalog is empty (the argument is
\* given in both cases).
ToolConfig(catalog) ==
  IF catalog # <<>> THEN Some([tools |-> catalog, toolChoice |-> "auto"]) ELSE None

\* What the client raises for an argument of the wrong type.
ParamValidationError ==
  [fault |-> "ParamValidationError",
   text |-> "Parameter validation failed:\nInvalid type for parameter toolConfig, value: None, type: <class 'NoneType'>, valid types: <class 'dict'>"]

\* bedrock.converse(modelId, messages, toolConfig) with the backend answering
\* reply: the boto3 client checks the arguments it is given against the
\* operation's input shape before it sends anything, and toolConfig is a
\* structure, for which None is no value (an optional argument is left out,
\* not set to None): with toolConfig = None the call raises
\* ParamValidationError, which is no ClientError, and the backend is not
\* reached.  Otherwise the call ends as the backend answers.
Converse(toolConfig, reply) ==
  IF toolConfig = None THEN ParamValidationError ELSE reply

\* One iteration of the while loop up to its first await: turns += 1, the
\* (blocking) bedrock.converse call and the branch on its stop reason.
converse(t, reply) ==
  /\ pc[t] = "loop"
  /\ max_turns[t] # None
  /\ LoopCond(turns[t], max_turns[t][1])
  /\ turns' = [turns EXCEPT ![t] = @ + 1]
  /\ backendCalls' = [backendCalls EXCEPT ![t] = @ + 1]
  /\ LET response == Converse(ToolConfig(tools[t]), reply)
     IN /\ replyLog' = [replyLog EXCEPT ![t] =
                          Append(@, IF response.fault # "" THEN response.fault
                                    ELSE response.stopReason)]
        /\ HandleReply(t, response, turns[t] + 1)
  /\ UNCHANGED <<regVars, kind, fetchVars, tools, max_turns>>

\* The execute request is answered: execute_tool returns, the result is
\* appended to tool_results and the loop over the content goes on.
execute_reply(t, reply) ==
  /\ pc[t] = "execute"
  /\ LET tool_use == output_message(t).content[idx[t]].toolUse
     IN ToolUseLoop(t, messages[t], idx[t] + 1,
                    Append(tool_results[t], ToolResult(tool_use, ExecuteResult(reply))),
                    turns[t])
  /\ UNCHANGED <<regVars, kind, fetchVars, tools, turns, max_turns, backendCalls,
                 replyLog>>

\* ------------------------------------------------------------ specifications

\* The registry on its own: GET /tools requests, every endpoint reply.
NextRegistry ==
  \E t \in Tasks :
    \/ list_tools(t)
    \/ /\ pc[t] = "fetch" /\ srv[t] <= Len(ServerNames)
       /\ \E reply \in ListReplies(ServerNames[srv[t]]) : fetch_get(t, reply)
    \/ fetch_store(t)
    \/ respond(t)

SpecRegistry == Init /\ [][NextRegistry]_vars

\* The service handling one request after the other.
Next ==
  \E t \in Tasks :
    \/ list_tools(t)
    \/ /\ pc[t] = "new"
       /\ \E m \in UserMessages, limit \in MaxTurnsInputs : run_agent(t, m, limit)
    \/ /\ pc[t] = "fetch" /\ srv[t] <= Len(ServerNames)
       /\ \E reply \in RunListReplies(ServerNames[srv[t]]) : fetch_get(t, reply)
    \/ fetch_store(t)
    \/ loop_type_error(t)
    \/ loop_exit(t)
    \/ /\ pc[t] = "loop"
       /\ \E reply \in ConverseReplies(turns[t] + 1,
                                        MaxBlocks - AssistantBlocks(messages[t])) :
            converse(t, reply)
    \/ /\ pc[t] = "execute"
       /\ \E reply \in ExecuteReplies : execute_reply(t, reply)
    \/ respond(t)

Spec == Init /\ [][Next]_vars

\* Concurrent requests: every task handles one request, and the handlers
\* interleave at their awaits (the list-tools request, the end of the
\* AsyncClient block, the execute request); bedrock.converse blocks the event
\* loop, so a backend call and what follows it up to the next await is one
\* step.

\* max_turns of the concurrent runs.
ConcurrentLimits == {Some(2)}

\* The endpoint replies to concurrent fetches: the filesystem endpoint fails
\* or declares "read", the calculator endpoint declares "calc".
ConcurrentListReplies(s) ==
  IF s = "filesystem"
  THEN {[kind |-> "neterr"],
        [kind |-> "ok", tools |-> <<[name |-> "read", description |-> s]>>]}
  ELSE {[kind |-> "ok", tools |-> <<[name |-> "calc", description |-> s]>>]}

\* The replies of the backend to call number turn of task t: an exception
\* whose text is "None", a ClientError, a final text, a call of "calc", an unknown stop reason, no stop reason.
\* The call ids tell the conversation.
ConcurrentConverseReplies(t, turn) ==
  {[fault |-> "Exception", text |-> "None"],
   [fault |-> "ClientError", text |-> "throttled"]}
  \cup {[fault |-> "", stopReason |-> sr,
         message |-> [role |-> "assistant",
                      content |-> Content(shapes, 10 * t + turn)]] :
          sr \in {"end_turn"}, shapes \in {<<"text">>}}
  \cup {[fault |-> "", stopReason |-> sr,
         message |-> [role |-> "assistant",
                      content |-> Content(shapes, 10 * t + turn)]] :
          sr \in {"tool_use"}, shapes \in {<<"calc">>}}
  \cup {[fault |-> "", stopReason |-> sr,
         message |-> [role |-> "assistant",
                      content |-> Content(shapes, 10 * t + turn)]] :
          sr \in {"content_filtered", "None"}, shapes \in {<<>>}}

\* The replies of a tool server to the execute requests of concurrent runs.
ConcurrentExecuteReplies == {[kind |-> "ok", result |-> "42"]}

NextConcurrent ==
  \E t \in Tasks :
    \/ list_tools_start(t)
    \/ /\ pc[t] = "new"
       /\ \E m \in UserMessages, limit \in ConcurrentLimits :
            run_agent_start(t, m, limit)
    \/ /\ pc[t] = "fetch" /\ srv[t] <= Len(ServerNames)
       /\ \E reply \in ConcurrentListReplies(ServerNames[srv[t]]) :
            fetch_get(t, reply)
    \/ fetch_store(t)
    \/ loop_exit(t)
    \/ /\ pc[t] = "loop"
       /\ \E reply \in ConcurrentConverseReplies(t, turns[t] + 1) :
            converse(t, reply)
    \/ /\ pc[t] = "execute"
       /\ \E reply \in ConcurrentExecuteReplies : execute_reply(t, reply)

SpecConcurrent == Init /\ [][NextConcurrent]_vars

\* ------------------------------------------------------------------ claims

\* Task t is a run that has returned an AgentResponse.
Returned(t) ==
  /\ pc[t] = "done"
  /\ kind[t] = "run"
  /\ http[t] # None
  /\ http[t][1].status = 200

\* The AgentResponse a returned run gave.
Result(t) == http[t][1].body

\* Task t is a run called with an integer max_turns >= 1.
PositiveLimit(t) == max_turns[t] # None /\ max_turns[t][1] >= 1

\* C1: for max_turns >= 1 and any backend replies, the turns of the result
\* run returns is at least 1 and at most max_turns.
C1_TurnsWithinLimit ==
  \A t \in Tasks :
    Returned(t) /\ PositiveLimit(t) =>
      /\ 1 <= Result(t).turns
      /\ Result(t).turns <= max_turns[t][1]

\* A run with the largest max_turns has returned Completed on its last turn.
C1_Witness ==
  \E t \in Tasks :
    /\ Returned(t)
    /\ max_turns[t] = Some(MaxTurns)
    /\ Result(t).turns = MaxTurns
    /\ outcome[t] = "Completed"

\* The first n backend calls of task t all returned tool_use and each of
\* these turns was carried through to its tool-result message.
AllToolUse(t, n) ==
  /\ Len(replyLog[t]) >= n
  /\ \A j \in 1..n : replyLog[t][j] = "tool_use"
  /\ Len(messages[t]) >= 1 + 2 * n

\* C2: for max_turns >= 1, run returns "Max turns reached" with
\* turns = max_turns exactly when every one of the max_turns backend calls
\* returned tool_use without a fault.
C2_ExhaustedIff ==
  \A t \in Tasks :
    Returned(t) /\ PositiveLimit(t) =>
      ((/\ outcome[t] = "Exhausted"
        /\ Result(t).response = "Max turns reached"
        /\ Result(t).turns = max_turns[t][1])
       <=> AllToolUse(t, max_turns[t][1]))

\* A backend that always replies tool_use, with the largest max_turns: the
\* run has returned Exhausted at turns = max_turns.
C2_Witness ==
  \E t \in Tasks :
    /\ Returned(t)
    /\ max_turns[t] = Some(MaxTurns)
    /\ replyLog[t] = [j \in 1..MaxTurns |-> "tool_use"]
    /\ outcome[t] = "Exhausted"
    /\ Result(t).turns = MaxTurns

\* The indices of the blocks of a content that have key k, in order.
RECURSIVE Keyed(_, _, _)
Keyed(content, k, i) ==
  IF i > Len(content) THEN <<>>
  ELSE (IF k \in DOMAIN content[i] THEN <<i>> ELSE <<>>) \o Keyed(content, k, i + 1)

\* The call ids of the toolUse blocks of a message, in order.
ToolUseIds(msg) ==
  LET at == Keyed(msg.content, "toolUse", 1)
  IN [j \in 1..Len(at) |-> msg.content[at[j]].toolUse.toolUseId]

\* Message number i of the history is a user message made of toolResult
\* blocks only, whose call ids are those of the toolUse blocks of the
\* assistant message before it, in the same order.
AnswersPrevious(msgs, i) ==
  /\ msgs[i].role = "user"
  /\ msgs[i - 1].role = "assistant"
  /\ \A j \in DOMAIN msgs[i].content : DOMAIN msgs[i].content[j] = {"toolResult"}
  /\ [j \in DOMAIN msgs[i].content |-> msgs[i].content[j].toolResult.toolUseId]
       = ToolUseIds(msgs[i - 1])

\* Turn j of task t has been carried through: its reply was tool_use and the
\* loop over its content has ended.
TurnDone(t, j) ==
  /\ j <= Len(replyLog[t])
  /\ replyLog[t][j] = "tool_use"
  /\ \/ j < Len(replyLog[t])
     \/ pc[t] = "loop"
     \/ outcome[t] = "Exhausted"

\* C3: every tool_use turn that is carried through adds exactly one user
\* message, right after the turn's assistant message, with one toolResult per
\* toolUse block, in the same order and with the same call ids; and every
\* user message after the first answers the assistant message before it.
C3_ToolResultsPaired ==
  \A t \in Tasks :
    /\ \A j \in 1..Len(replyLog[t]) :
         TurnDone(t, j) =>
           /\ Len(messages[t]) >= 2 * j + 1
           /\ messages[t][2 * j].role = "assistant"
           /\ AnswersPrevious(messages[t], 2 * j + 1)
           /\ Len(messages[t]) > 2 * j + 1 => messages[t][2 * j + 2].role = "assistant"
    /\ \A i \in 2..Len(messages[t]) :
         messages[t][i].role = "user" => AnswersPrevious(messages[t], i)

\* A turn with two toolUse blocks, the first after a text block, has been
\* answered by a message of two tool results.
C3_Witness ==
  \E t \in Tasks :
    /\ Len(messages[t]) >= 3
    /\ Len(messages[t][2].content) = 3
    /\ "text" \in DOMAIN messages[t][2].content[1]
    /\ Len(ToolUseIds(messages[t][2])) = 2
    /\ Len(messages[t][3].content) = 2
    /\ AnswersPrevious(messages[t], 3)

\* The handling of the reply of an endpoint raised or found a non-200 status:
\* the endpoint failed.
EndpointFailed(reply) ==
  \/ reply.kind # "ok"
  \/ \E i \in DOMAIN reply.tools : "name" \notin DOMAIN reply.tools[i]

\* The catalog made of the tools of the endpoints that did not fail, in the
\* order of the endpoints.
RECURSIVE Merged(_)
Merged(rs) ==
  IF rs = <<>> THEN <<>>
  ELSE LET r == rs[Len(rs)]
       IN Merged(SubSeq(rs, 1, Len(rs) - 1)) \o
            (IF EndpointFailed(r) THEN <<>>
             ELSE [i \in DOMAIN r.tools |-> BedrockTool(r.tools[i])])

\* Task t has queried every endpoint and its handler has returned.
Fetched(t) == pc[t] = "done" /\ Len(replies[t]) = Len(ServerNames)

\* C4: a failing endpoint (non-200, network error, malformed payload, also
\* one malformed after some well-formed entries) takes exactly its own tools
\* out of the catalog: the catalog is the tools of the endpoints that did not
\* fail, no tool is mapped to a failing endpoint, every tool of the others
\* is mapped, and the fetch returns normally.
C4_FailingEndpointTakesItsTools ==
  \A t \in Tasks :
    Fetched(t) =>
      /\ tools[t] = Merged(replies[t])
      /\ tools_cache = Some(Merged(replies[t]))
      /\ \A n \in DOMAIN tool_to_server :
           \E i \in DOMAIN replies[t] :
             /\ ~EndpointFailed(replies[t][i])
             /\ tool_to_server[n] = MCP_SERVERS[ServerNames[i]]
      /\ \A i \in DOMAIN replies[t] :
           ~EndpointFailed(replies[t][i]) =>
             \A j \in DOMAIN replies[t][i].tools :
               replies[t][i].tools[j].name \in DOMAIN tool_to_server
      /\ http[t] # None /\ http[t][1].status = 200

\* The error payload for a tool that is not in tool_to_server: a JSON object
\* with an "error" member.
NotFoundText(tool_name) == "{\"error\": \"Tool " \o tool_name \o " not found\"}"

\* The toolUse blocks of a message, in order.
ToolUseBlocks(msg) ==
  LET at == Keyed(msg.content, "toolUse", 1)
  IN [j \in 1..Len(at) |-> msg.content[at[j]].toolUse]

\* The block task t is at in its loop over the content.
BlockAt(t) == messages[t][Len(messages[t])].content[idx[t]]

\* Run t ended in its except clause although the backend call returned:
\* then the block it was at is a toolUse block without "name".
AbortedByBlock(t) ==
  /\ idx[t] \in DOMAIN messages[t][Len(messages[t])].content
  /\ "toolUse" \in DOMAIN BlockAt(t)
  /\ "name" \notin DOMAIN BlockAt(t).toolUse

\* The entries of a log whose tool is in tool_to_server.
RECURSIVE RoutableEntries(_)
RoutableEntries(log) ==
  IF log = <<>> THEN <<>>
  ELSE (IF Head(log).tool \in DOMAIN tool_to_server THEN <<Head(log)>> ELSE <<>>)
         \o RoutableEntries(Tail(log))

\* In the tool results given for the toolUse blocks of msg, every block that
\* names a tool that is not in tool_to_server has the not-found payload.
UnknownAnswered(msg, results) ==
  \A j \in DOMAIN results :
    ToolUseBlocks(msg)[j].name \notin DOMAIN tool_to_server =>
      results[j] = [toolResult |->
                      [toolUseId |-> ToolUseBlocks(msg)[j].toolUseId,
                       content |->
                         <<[text |-> NotFoundText(ToolUseBlocks(msg)[j].name)]>>]]

\* C5: a toolUse block naming a tool that is not in tool_to_server is
\* answered by the not-found error payload, held by an ordinary tool result of
\* the turn; no execute request is sent for it (the requests sent are those
\* of the logged calls whose tool is in tool_to_server); and it does not end
\* the run: a run that ends Aborted ends so because of a backend fault or a
\* toolUse block without "name".
C5_UnknownToolIsData ==
  \A t \in Tasks :
    /\ \A i \in 2..Len(messages[t]) :
         messages[t][i].role = "user" =>
           UnknownAnswered(messages[t][i - 1], messages[t][i].content)
    /\ pc[t] = "execute" =>
         UnknownAnswered(messages[t][Len(messages[t])], tool_results[t])
    /\ Len(execReqs[t]) = Len(RoutableEntries(tool_calls_log[t]))
    /\ \A k \in DOMAIN execReqs[t] :
         /\ execReqs[t][k].json.tool = RoutableEntries(tool_calls_log[t])[k].tool
         /\ execReqs[t][k].json.tool \in DOMAIN tool_to_server
    /\ outcome[t] = "Aborted" =>
         \/ replyLog[t][Len(replyLog[t])]
              \in {"ClientError", "Exception", "KeyError", "ParamValidationError"}
         \/ AbortedByBlock(t)

\* After a turn that asked for the unknown tool "nope" and got the not-found
\* payload, with no execute request sent, the next backend call has been made.
C5_Witness ==
  \E t \in Tasks :
    /\ backendCalls[t] = 2
    /\ execReqs[t] = <<>>
    /\ tool_calls_log[t] # <<>>
    /\ tool_calls_log[t][1].tool = "nope"
    /\ Len(messages[t]) >= 3
    /\ messages[t][3].role = "user"
    /\ messages[t][3].content # <<>>
    /\ messages[t][3].content[1].toolResult.content[1].text = NotFoundText("nope")

\* C6: a second call of fetch_all_tools, made after the first has returned,
\* returns the catalog the first returned and sends no list-tools request:
\* all calls have returned one catalog, no endpoint has been asked twice, and
\* a call that asked no endpoint returned the cached catalog.
C6_SecondFetchFromCache ==
  /\ Cardinality(returned) <= 1
  /\ \A s \in DOMAIN MCP_SERVERS : listCalls[s] <= 1
  /\ \A t \in Tasks :
       pc[t] = "done" /\ replies[t] = <<>> =>
         tools_cache # None /\ tools[t] = tools_cache[1]

\* A call has returned a catalog of two tools without asking any endpoint.
C6_Witness ==
  \E t \in Tasks :
    /\ pc[t] = "done"
    /\ kind[t] = "tools"
    /\ replies[t] = <<>>
    /\ Len(tools[t]) = 2
    /\ \A s \in DOMAIN MCP_SERVERS : listCalls[s] = 1

\* C7: a request that passes validation is answered by a well-formed
\* AgentResponse, never by HTTP 500.
C7_NoTransportFailure ==
  \A t \in Tasks :
    pc[t] = "done" /\ kind[t] = "run" =>
      /\ http[t] # None
      /\ http[t][1].status = 200
      /\ DOMAIN http[t][1].body = {"response", "turns", "tool_calls"}

\* The last element of a non-empty sequence.
Last(s) == s[Len(s)]

\* The (tool name, arguments, call id) of the toolUse blocks among the first
\* n blocks of a content, in order.
RECURSIVE Entries(_, _)
Entries(content, n) ==
  IF n = 0 THEN <<>>
  ELSE Entries(content, n - 1) \o
         (IF "toolUse" \in DOMAIN content[n]
          THEN <<[tool |-> content[n].toolUse.name,
                  input |-> content[n].toolUse.input,
                  tool_use_id |-> content[n].toolUse.toolUseId]>>
          ELSE <<>>)

\* The number of blocks of message i of task t that the loop of a tool_use
\* turn has processed: all of them when the turn's tool-result message
\* follows; for the last message, those up to the block whose execute request
\* is awaited, or before the block that raised; none when the message came
\* with another stop reason.
Processed(t, i) ==
  IF i < Len(messages[t]) THEN Len(messages[t][i].content)
  ELSE IF Last(replyLog[t]) # "tool_use" THEN 0
  ELSE IF pc[t] = "execute" THEN idx[t]
  ELSE idx[t] - 1

\* The toolUse blocks processed in the first i messages of task t, as log
\* entries, in turn order and in block order within a turn.
RECURSIVE ProcessedLog(_, _)
ProcessedLog(t, i) ==
  IF i = 0 THEN <<>>
  ELSE ProcessedLog(t, i - 1) \o
         (IF messages[t][i].role = "assistant"
          THEN Entries(messages[t][i].content, Processed(t, i))
          ELSE <<>>)

\* The text blocks of the first n blocks of a content, joined in order.
RECURSIVE JoinTexts(_, _)
JoinTexts(content, n) ==
  IF n = 0 THEN ""
  ELSE JoinTexts(content, n - 1) \o
         (IF "text" \in DOMAIN content[n] THEN content[n].text ELSE "")

\* C8: when the reply on turn k has stop reason end_turn, run returns
\* Completed with turns = k, the response being the text blocks of that
\* reply's message joined in order (no other block, no text of an earlier
\* turn), and the log being the calls of the turns before; on the first call
\* this is turns = 1 and an empty log.
C8_EndTurnCompletes ==
  \A t \in Tasks :
    replyLog[t] # <<>> /\ Last(replyLog[t]) = "end_turn" =>
      /\ Returned(t)
      /\ outcome[t] = "Completed"
      /\ Result(t).turns = Len(replyLog[t])
      /\ Result(t).turns = backendCalls[t]
      /\ Len(messages[t]) = 2 * Len(replyLog[t])
      /\ Last(messages[t]).role = "assistant"
      /\ Result(t).response =
           JoinTexts(Last(messages[t]).content, Len(Last(messages[t]).content))
      /\ Result(t).tool_calls = ProcessedLog(t, Len(messages[t]) - 1)
      /\ Len(replyLog[t]) = 1 => Result(t).turns = 1 /\ Result(t).tool_calls = <<>>

\* A run has completed on its second turn: the first turn made a tool call,
\* the second reply held two text blocks; the response is the two texts in
\* order and the log holds the call.
C8_Witness ==
  \E t \in Tasks :
    /\ outcome[t] = "Completed"
    /\ Returned(t)
    /\ Result(t).turns = 2
    /\ Len(messages[t]) = 4
    /\ replyLog[t] = <<"tool_use", "end_turn">>
    /\ Len(Last(messages[t]).content) = 2
    /\ Result(t).response = "12"
    /\ Len(Result(t).tool_calls) = 1

\* s is a prefix of r.
IsPrefix(s, r) == Len(s) <= Len(r) /\ s = SubSeq(r, 1, Len(s))

\* The log of a run is the processed toolUse blocks, and so is the log it
\* returns; the call whose execute request is awaited is the last entry.
LogIsProcessedBlocks ==
  \A t \in Tasks :
    kind[t] = "run" =>
      /\ tool_calls_log[t] = ProcessedLog(t, Len(messages[t]))
      /\ Returned(t) => Result(t).tool_calls = ProcessedLog(t, Len(messages[t]))
      /\ Len(execReqs[t]) <= Len(tool_calls_log[t])
      /\ pc[t] = "execute" =>
           /\ Last(tool_calls_log[t]).tool = Last(execReqs[t]).json.tool
           /\ Last(tool_calls_log[t]).input = Last(execReqs[t]).json.arguments
           /\ Last(tool_calls_log[t]).tool_use_id = BlockAt(t).toolUse.toolUseId

\* C9: the log run returns, whatever the outcome, is the (tool name,
\* arguments, call id) of the toolUse blocks processed in tool_use turns, in
\* turn order and in block order; an entry is recorded before its dispatch,
\* whatever the dispatch returns; and as long as the run lasts the log only
\* grows at its end.
C9_LogIsProcessedBlocks ==
  /\ []LogIsProcessedBlocks
  /\ [][\A t \in Tasks :
          /\ pc'[t] # "new" => IsPrefix(tool_calls_log[t], tool_calls_log'[t])
          /\ Len(execReqs'[t]) > Len(execReqs[t]) =>
               Len(tool_calls_log'[t]) > Len(tool_calls_log[t])]_vars

\* A run has returned a log of two calls made in two turns, the first of
\* which was answered by an error payload of its dispatch.
C9_Witness ==
  \E t \in Tasks :
    /\ Returned(t)
    /\ Len(Result(t).tool_calls) = 2
    /\ Result(t).tool_calls[1].tool_use_id = 11
    /\ Result(t).tool_calls[2].tool_use_id = 21
    /\ Len(execReqs[t]) = 2
    /\ Len(messages[t]) >= 3
    /\ messages[t][3].content # <<>>
    /\ messages[t][3].content[1].toolResult.content[1].text
         = "{\"error\": \"Tool execution failed: 500\", \"details\": \"boom\"}"

\* The ways a call of bedrock.converse, or the reading of its response,
\* fails.
BackendFaults == {"ClientError", "Exception", "KeyError", "ParamValidationError"}

\* The message run returns for a fault.
FaultMessages ==
  [ClientError |-> "Bedrock API error: throttled",
   Exception |-> "Agent error: connect timeout",
   KeyError |-> "Agent error: 'output'",
   ParamValidationError |-> "Agent error: " \o ParamValidationError.text]

\* A run whose backend call on turn k faulted has returned Aborted with the
\* fault's message, turns = k and the log of the turns before; the fault is
\* its last backend call; and every Aborted run reports as turns the number
\* of its backend calls, with its log.
AbortedOnFault ==
  \A t \in Tasks :
    /\ \A j \in DOMAIN replyLog[t] :
         replyLog[t][j] \in BackendFaults =>
           /\ j = Len(replyLog[t])
           /\ Returned(t)
           /\ outcome[t] = "Aborted"
           /\ Result(t).response = FaultMessages[replyLog[t][j]]
           /\ Result(t).turns = j
           /\ backendCalls[t] = j
           /\ Len(messages[t]) = 2 * j - 1
           /\ Result(t).tool_calls = ProcessedLog(t, Len(messages[t]))
    /\ outcome[t] = "Aborted" =>
         /\ Returned(t)
         /\ Result(t).turns = backendCalls[t]
         /\ Result(t).tool_calls = tool_calls_log[t]

\* C10: a backend call that faults on turn k makes run return Aborted at
\* once, with a message that describes the fault, turns = k and the log
\* reached; the step of the fault sends no execute request and adds nothing
\* to the log or to the history, and an Aborted run makes no backend call and
\* sends no execute request any more.
C10_FaultAborts ==
  /\ []AbortedOnFault
  /\ [][\A t \in Tasks :
          /\ (/\ Len(replyLog'[t]) = Len(replyLog[t]) + 1
              /\ Last(replyLog'[t]) \in BackendFaults) =>
               /\ execReqs'[t] = execReqs[t]
               /\ tool_calls_log'[t] = tool_calls_log[t]
               /\ messages'[t] = messages[t]
               /\ pc'[t] = "done"
          /\ outcome[t] = "Aborted" /\ pc'[t] # "new" =>
               /\ backendCalls'[t] = backendCalls[t]
               /\ execReqs'[t] = execReqs[t]
               /\ http'[t] = http[t]]_vars

\* The second backend call of a run faulted after a turn that dispatched a
\* tool: the run has returned Aborted with turns = 2 and the call in its log.
C10_Witness ==
  \E t \in Tasks :
    /\ outcome[t] = "Aborted"
    /\ replyLog[t] = <<"tool_use", "ClientError">>
    /\ Len(execReqs[t]) = 1
    /\ Result(t).turns = 2
    /\ Len(Result(t).tool_calls) = 1
    /\ Result(t).response = "Bedrock API error: throttled"

\* The names of the tool definitions of a catalog, in order.
CatalogNames(catalog) == [i \in DOMAIN catalog |-> catalog[i].toolSpec.name]

\* C11: no two tool definitions of the catalog fetch_all_tools returns (and
\* caches) have the same name, whatever the endpoints answer.
C11_CatalogNamesUnique ==
  \A catalog \in returned \cup (IF tools_cache = None THEN {} ELSE {tools_cache[1]}) :
    \A i, j \in DOMAIN catalog :
      CatalogNames(catalog)[i] = CatalogNames(catalog)[j] => i = j

\* Reply r of an endpoint is a successful list of tools that declares name n.
Declares(r, n) ==
  /\ r.kind = "ok"
  /\ ~EndpointFailed(r)
  /\ \E i \in DOMAIN r.tools : r.tools[i].name = n

\* C12: when two endpoints both answered their list request successfully and
\* both declared a tool name, tool_to_server maps the name to the endpoint
\* that comes later in MCP_SERVERS, and every execute request for the name
\* went to that endpoint.
C12_LastWriteWins ==
  \A t \in Tasks :
    pc[t] # "fetch" /\ Len(replies[t]) = Len(ServerNames) =>
      \A n \in ToolNames :
        \A i, j \in DOMAIN replies[t] :
          i < j /\ Declares(replies[t][i], n) /\ Declares(replies[t][j], n)
          /\ (\A k \in DOMAIN replies[t] : k > j => ~Declares(replies[t][k], n)) =>
            /\ n \in DOMAIN tool_to_server
            /\ tool_to_server[n] = MCP_SERVERS[ServerNames[j]]
            /\ \A k \in DOMAIN execReqs[t] :
                 execReqs[t][k].json.tool = n =>
                   execReqs[t][k].url = MCP_SERVERS[ServerNames[j]]

\* Both endpoints declared "calc" and a run has sent its execute request for
\* "calc" to the calculator endpoint, the later of the two.
C12_Witness ==
  \E t \in Tasks :
    /\ Len(replies[t]) = 2
    /\ Declares(replies[t][1], "calc")
    /\ Declares(replies[t][2], "calc")
    /\ execReqs[t] # <<>>
    /\ execReqs[t][1].json.tool = "calc"
    /\ execReqs[t][1].url = "http://mcp-calculator:3002"

\* The structured payloads execute_tool gives for the replies of a tool
\* server that are not a success: a JSON object with an "error" member, and
\* "details" for a non-200 status.
DispatchErrorTexts ==
  {"{\"error\": \"Tool execution failed: 500\", \"details\": \"boom\"}",
   "{\"error\": \"Tool execution error: read timeout\"}"}

\* The texts of a sequence of tool results.
ResultTexts(results) ==
  [j \in DOMAIN results |-> results[j].toolResult.content[1].text]

\* Every tool result for a toolUse block of msg that names a tool of
\* tool_to_server is the successful result or one of the error payloads.
KnownAnswered(msg, results) ==
  \A j \in DOMAIN results :
    ToolUseBlocks(msg)[j].name \in DOMAIN tool_to_server =>
      ResultTexts(results)[j] \in {"42"} \cup DispatchErrorTexts

\* C14: for a tool that is in tool_to_server, an execute request answered by a
\* non-200 status or failing in transport gives a structured error payload,
\* which run holds as the tool result of the call; it does not end the run:
\* after every execute reply the turn goes on (next dispatch, or the
\* tool-result message and the next backend call), and a run that ends
\* Aborted ends so because of a backend fault or a toolUse block without
\* "name", never at a block that was dispatched.
C14_DispatchFailuresAreData ==
  \A t \in Tasks :
    /\ \A i \in 2..Len(messages[t]) :
         messages[t][i].role = "user" =>
           KnownAnswered(messages[t][i - 1], messages[t][i].content)
    /\ pc[t] = "execute" =>
         KnownAnswered(messages[t][Len(messages[t])], tool_results[t])
    /\ kind[t] = "run" /\ pc[t] \in {"loop", "execute", "done"} =>
         Len(tool_results[t]) + (IF pc[t] = "execute" THEN 1 ELSE 0)
           <= Len(tool_calls_log[t])
    /\ outcome[t] = "Aborted" /\ Last(replyLog[t]) \notin BackendFaults =>
         /\ AbortedByBlock(t)
         /\ Len(tool_results[t]) = Len(ToolUseBlocks(Last(messages[t]))) - 1

\* A run has completed after a turn whose two dispatches failed, one by a
\* non-200 status and one in transport: both error payloads are in the
\* tool-result message of the turn.
C14_Witness ==
  \E t \in Tasks :
    /\ outcome[t] = "Completed"
    /\ Len(messages[t]) = 4
    /\ Len(messages[t][3].content) = 2
    /\ Len(execReqs[t]) = 2
    /\ {ResultTexts(messages[t][3].content)[j] : j \in 1..2} = DispatchErrorTexts

\* The terminal outcomes of run.
TerminalOutcomes == {"Completed", "Truncated", "Unrecognized", "Aborted", "Exhausted"}

\* A run that has ended has ended in one terminal outcome, after at most
\* max_turns backend calls; a run that has not ended has no outcome.
EndsInOutcome ==
  \A t \in Tasks :
    kind[t] = "run" =>
      /\ pc[t] = "done" => outcome[t] \in TerminalOutcomes
      /\ pc[t] # "done" => outcome[t] = ""
      /\ max_turns[t] # None => backendCalls[t] <= max_turns[t][1]

\* C15: every invocation of run ends in exactly one of Completed, Truncated,
\* Unrecognized, Aborted and Exhausted after at most max_turns backend calls,
\* and once it has ended it makes no backend call, sends no execute request
\* and appends nothing to its history or its log.
C15_EndsInOneOutcome ==
  /\ []EndsInOutcome
  /\ [][\A t \in Tasks :
          pc[t] = "done" /\ pc'[t] # "new" =>
            /\ outcome'[t] = outcome[t]
            /\ backendCalls'[t] = backendCalls[t]
            /\ execReqs'[t] = execReqs[t]
            /\ messages'[t] = messages[t]
            /\ tool_calls_log'[t] = tool_calls_log[t]]_vars

\* The call ids of the toolResult blocks of a message, in order.
ToolResultIds(msg) ==
  [j \in DOMAIN msg.content |-> msg.content[j].toolResult.toolUseId]

\* C16: when the backend call of turn n+1 has been issued, every dispatch of
\* turn n has been answered and the one tool-result message of turn n is in
\* the history, right after the turn's assistant message, with a result for
\* each of its toolUse blocks; while a dispatch is awaited the turn's
\* assistant message is the last of the history and no later backend call
\* has been made.
C16_TurnsSequential ==
  \A t \in Tasks :
    kind[t] = "run" /\ backendCalls[t] >= 1 =>
      /\ backendCalls[t] = Len(replyLog[t])
      /\ Len(messages[t]) >= 2 * backendCalls[t] - 1
      /\ Len(messages[t]) <= 2 * backendCalls[t] + 1
      /\ \A n \in 1..(backendCalls[t] - 1) :
           /\ replyLog[t][n] = "tool_use"
           /\ messages[t][2 * n].role = "assistant"
           /\ messages[t][2 * n + 1].role = "user"
           /\ \A j \in DOMAIN messages[t][2 * n + 1].content :
                DOMAIN messages[t][2 * n + 1].content[j] = {"toolResult"}
           /\ ToolResultIds(messages[t][2 * n + 1]) = ToolUseIds(messages[t][2 * n])
      /\ pc[t] = "execute" =>
           /\ Len(messages[t]) = 2 * backendCalls[t]
           /\ Last(messages[t]).role = "assistant"
           /\ Len(execReqs[t]) = Len(RoutableEntries(tool_calls_log[t]))
           /\ Len(tool_results[t]) = Len(ToolUseIds(
                [content |-> SubSeq(Last(messages[t]).content, 1, idx[t] - 1)]))

\* The second backend call of a run has been made after a turn of two
\* dispatches: both requests were sent and both results are in the
\* tool-result message of the turn.
C16_Witness ==
  \E t \in Tasks :
    /\ backendCalls[t] = 2
    /\ Len(execReqs[t]) = 2
    /\ Len(messages[t]) >= 3
    /\ Len(messages[t][3].content) = 2
    /\ ToolResultIds(messages[t][3]) = <<11, 12>>

\* C18: when the reply on turn k has stop reason max_tokens, run returns
\* Truncated with the fixed response, turns = k and the log of the turns
\* before; the toolUse blocks of the truncated message are neither logged nor
\* dispatched: the execute requests sent are those of the turns before.
C18_MaxTokensTruncates ==
  \A t \in Tasks :
    replyLog[t] # <<>> /\ Last(replyLog[t]) = "max_tokens" =>
      /\ Returned(t)
      /\ outcome[t] = "Truncated"
      /\ Result(t).response = "Response truncated due to max tokens"
      /\ Result(t).turns = Len(replyLog[t])
      /\ Result(t).turns = backendCalls[t]
      /\ Len(messages[t]) = 2 * Len(replyLog[t])
      /\ Last(messages[t]).role = "assistant"
      /\ Result(t).tool_calls = ProcessedLog(t, Len(messages[t]) - 1)
      /\ \A e \in DOMAIN Result(t).tool_calls :
           \A j \in DOMAIN ToolUseIds(Last(messages[t])) :
             Result(t).tool_calls[e].tool_use_id # ToolUseIds(Last(messages[t]))[j]
      /\ Len(execReqs[t]) = Len(RoutableEntries(Result(t).tool_calls))

\* A run was truncated on its second turn by a message holding a toolUse
\* block for "calc", after a first turn that dispatched "calc": one call is
\* logged and one execute request was sent.
C18_Witness ==
  \E t \in Tasks :
    /\ outcome[t] = "Truncated"
    /\ Returned(t)
    /\ Result(t).turns = 2
    /\ Len(ToolUseIds(Last(messages[t]))) = 1
    /\ Len(Result(t).tool_calls) = 1
    /\ Len(execReqs[t]) = 1

\* The execute request owed to a log entry: to the endpoint that
\* tool_to_server gives for the tool, with the tool and the arguments.
RequestFor(entry) ==
  [url |-> tool_to_server[entry.tool],
   json |-> [tool |-> entry.tool, arguments |-> entry.input]]

\* C20: every processed toolUse block whose tool is in tool_to_server has
\* caused one execute request of its own to the owning endpoint: the
\* requests a run has sent are, one for one and in order, those of the
\* processed blocks with such a tool, also when tool and arguments repeat.
C20_OneRequestPerCall ==
  \A t \in Tasks :
    kind[t] = "run" /\ pc[t] \in {"loop", "execute", "done"} =>
      LET owed == RoutableEntries(ProcessedLog(t, Len(messages[t])))
      IN execReqs[t] = [k \in 1..Len(owed) |-> RequestFor(owed[k])]

\* Three calls of "calc" with the same arguments, two in the first turn and
\* one in the second, have caused three equal execute requests.
C20_Witness ==
  \E t \in Tasks :
    /\ Len(execReqs[t]) = 3
    /\ execReqs[t][1] = execReqs[t][2]
    /\ execReqs[t][2] = execReqs[t][3]
    /\ Len(messages[t]) >= 4
    /\ Len(ToolUseIds(messages[t][2])) = 2
    /\ Len(ToolUseIds(messages[t][4])) = 1

\* C13: once tools_cache is populated it is never changed: no step of any
\* interleaving of concurrent handlers that call fetch_all_tools assigns a
\* populated cache, and every call of fetch_all_tools returns the catalog of
\* the first population.
C13_CacheNeverChanges ==
  /\ [][tools_cache # None => tools_cache' = tools_cache]_vars
  /\ [](tools_cache # None => returned \subseteq {tools_cache[1]})

\* The call ids of the backend replies to task t: hundreds digit t.
OwnId(t, id) == id \div 100 = t

\* The response run owes to the last backend reply of task t, or to the end
\* of its turns.
OwedResponse(t) ==
  IF outcome[t] = "Exhausted" THEN "Max turns reached"
  ELSE IF Last(replyLog[t]) = "end_turn"
  THEN JoinTexts(Last(messages[t]).content, Len(Last(messages[t]).content))
  ELSE IF Last(replyLog[t]) = "Exception" THEN "Agent error: None"
  ELSE IF Last(replyLog[t]) = "ClientError" THEN "Bedrock API error: throttled"
  ELSE "Unexpected stop reason: " \o Last(replyLog[t])

\* The history, the turn counter and the log of a run are made of its own
\* input and of the replies to its own backend calls, and its result is the
\* one these give.
OwnState ==
  \A t \in Tasks :
    kind[t] = "run" =>
      /\ messages[t][1] = [role |-> "user", content |-> <<[text |-> "what is 6*7?"]>>]
      /\ turns[t] = backendCalls[t]
      /\ turns[t] = Len(replyLog[t])
      /\ \A i \in DOMAIN messages[t] :
           /\ messages[t][i].role = "assistant" =>
                \A j \in DOMAIN ToolUseIds(messages[t][i]) :
                  OwnId(t, ToolUseIds(messages[t][i])[j])
           /\ i > 1 /\ messages[t][i].role = "user" =>
                \A j \in DOMAIN messages[t][i].content :
                  OwnId(t, messages[t][i].content[j].toolResult.toolUseId)
      /\ tool_calls_log[t] = ProcessedLog(t, Len(messages[t]))
      /\ \A e \in DOMAIN tool_calls_log[t] : OwnId(t, tool_calls_log[t][e].tool_use_id)
      /\ Returned(t) =>
           Result(t) = [response |-> OwedResponse(t),
                        turns |-> Len(replyLog[t]),
                        tool_calls |-> ProcessedLog(t, Len(messages[t]))]

\* A step changes the history, the turn counter, the log or the tool results
\* of task t.
LocalsChanged(t) ==
  \/ messages'[t] # messages[t]
  \/ turns'[t] # turns[t]
  \/ tool_calls_log'[t] # tool_calls_log[t]
  \/ tool_results'[t] # tool_results[t]

\* C17: in every interleaving of concurrent runs, the history, the turn
\* counter and the log of a run hold only what its own input and its own
\* backend replies gave, its result is the one its own replies give, and no
\* step changes the history, turn counter or log of two runs, nor those of a
\* run that is not taking the step (it stays where it is and changes none).
C17_RunsAreIsolated ==
  /\ []OwnState
  /\ [][\A t, u \in Tasks :
          /\ LocalsChanged(t) /\ LocalsChanged(u) => t = u
          /\ LocalsChanged(t) /\ t # u =>
               /\ pc'[u] = pc[u]
               /\ http'[u] = http[u]
               /\ outcome'[u] = outcome[u]]_vars

\* Two runs are under way at once: the first has made a backend call and
\* awaits its dispatch, the second has returned after two turns.
C17_Witness ==
  \E t, u \in Tasks :
    /\ t # u
    /\ kind[t] = "run" /\ kind[u] = "run"
    /\ pc[t] = "execute" /\ turns[t] = 1
    /\ Returned(u) /\ Result(u).turns = 2
    /\ Len(Result(u).tool_calls) = 1
    /\ Len(tool_calls_log[t]) = 1

\* The stop reasons run has a branch for.
KnownStopReasons == {"end_turn", "tool_use", "max_tokens"}

\* C19: a backend reply whose stop reason is none of end_turn, tool_use and
\* max_tokens (a missing stop reason reads "None") makes run return
\* Unrecognized with the stop reason in its response; and no Unrecognized
\* result is an Aborted result: already their responses differ, also when
\* the text of the fault is the stop reason.
C19_UnrecognizedIsDistinct ==
  /\ \A t \in Tasks :
       /\ replyLog[t] # <<>> /\ Last(replyLog[t]) \notin KnownStopReasons \cup BackendFaults =>
            /\ Returned(t)
            /\ outcome[t] = "Unrecognized"
            /\ Result(t).response = "Unexpected stop reason: " \o Last(replyLog[t])
            /\ Result(t).turns = Len(replyLog[t])
       /\ outcome[t] = "Unrecognized" =>
            Last(replyLog[t]) \notin KnownStopReasons \cup BackendFaults
  /\ \A t, u \in Tasks :
       outcome[t] = "Unrecognized" /\ outcome[u] = "Aborted" =>
         /\ Result(t).response # Result(u).response
         /\ Result(t) # Result(u)

\* One run has returned Unrecognized for a reply without stop reason and
\* another Aborted for an exception whose text is "None", both on their first
\* turn.
C19_Witness ==
  \E t, u \in Tasks :
    /\ outcome[t] = "Unrecognized"
    /\ Result(t).response = "Unexpected stop reason: None"
    /\ Result(t).turns = 1
    /\ outcome[u] = "Aborted"
    /\ Result(u).response = "Agent error: None"
    /\ Result(u).turns = 1
    /\ Result(u).tool_calls = Result(t).tool_calls

\* Task t is a run that has its catalog: fetch_all_tools has returned to it.
HasCatalog(t) == kind[t] = "run" /\ pc[t] \in {"loop", "execute", "done"}

\* C21: a run whose catalog is empty still calls the backend on each turn, and
\* its calls are valid ones: none is refused for its arguments, so that the
\* run ends as the backend's replies make it end; when it ends Aborted, it is
\* because the backend faulted or answered a toolUse block without "name",
\* never because of the empty catalog.
C21_EmptyCatalogIsValid ==
  \A t \in Tasks :
    HasCatalog(t) /\ tools[t] = <<>> =>
      /\ backendCalls[t] = turns[t]
      /\ \A j \in DOMAIN replyLog[t] : replyLog[t][j] # "ParamValidationError"
      /\ outcome[t] = "Aborted" =>
           \/ Last(replyLog[t]) \in {"ClientError", "Exception", "KeyError"}
           \/ AbortedByBlock(t)

\* The roles of a history alternate, from user on.
Alternates(msgs) ==
  \A i \in DOMAIN msgs : msgs[i].role = (IF i % 2 = 1 THEN "user" ELSE "assistant")

\* The turns of task t in which the backend call returned a message.
Answered(t) == {j \in DOMAIN replyLog[t] : replyLog[t][j] \notin BackendFaults}

\* The history of task t, turn by turn: it starts with one user message of one
\* text block; roles alternate; every turn whose backend call returned a
\* message has its assistant message at position 2j, also the last turn of a
\* run that has returned; and every completed tool_use turn has a user
\* message after it, so that before the next call, after k turns, the history
\* has 1 + 2k messages.
HistoryShape ==
  \A t \in Tasks :
    kind[t] = "run" =>
      /\ messages[t] # <<>>
      /\ messages[t][1].role = "user"
      /\ Len(messages[t][1].content) = 1
      /\ "text" \in DOMAIN messages[t][1].content[1]
      /\ Alternates(messages[t])
      /\ \A j \in Answered(t) :
           /\ Len(messages[t]) >= 2 * j
           /\ messages[t][2 * j].role = "assistant"
      /\ pc[t] = "loop" =>
           /\ \A j \in DOMAIN replyLog[t] : replyLog[t][j] = "tool_use"
           /\ Len(replyLog[t]) = turns[t]
           /\ Len(messages[t]) = 1 + 2 * turns[t]
      /\ pc[t] = "execute" => Len(messages[t]) = 2 * turns[t]
      /\ Returned(t) =>
           Len(messages[t]) =
             (IF outcome[t] = "Exhausted" THEN 1 + 2 * turns[t]
              ELSE IF Last(replyLog[t]) \in BackendFaults THEN 2 * turns[t] - 1
              ELSE 2 * turns[t])

\* C22: the history starts with one user message, gets the assistant message
\* of every turn whose backend call returned one before the stop reason is
\* acted on (also on a terminal turn), and alternates user, assistant, ...:
\* after k completed tool_use turns it has 1 + 2k messages.  A step never
\* changes a message that is in the history, and the backend is called only
\* with a history that ends with a user message.
C22_HistoryAlternates ==
  /\ []HistoryShape
  /\ [][\A t \in Tasks :
          pc[t] \in {"loop", "execute"} =>
            /\ IsPrefix(messages[t], messages'[t])
            /\ backendCalls'[t] = backendCalls[t] + 1 =>
                 /\ Last(messages[t]).role = "user"
                 /\ Last(replyLog'[t]) \notin BackendFaults =>
                      /\ Len(messages'[t]) > Len(messages[t])
                      /\ messages'[t][Len(messages[t]) + 1].role = "assistant"]_vars

\* A run of one completed tool_use turn and a final turn: user, assistant,
\* user (the tool results), assistant.
C22_Witness ==
  \E t \in Tasks :
    /\ Returned(t)
    /\ outcome[t] = "Completed"
    /\ replyLog[t] = <<"tool_use", "end_turn">>
    /\ Len(messages[t]) = 4
    /\ Len(messages[t][3].content) >= 1
    /\ Alternates(messages[t])

\* A call of fetch_all_tools has completed.
FetchCompleted == returned # {}

\* A call of fetch_all_tools is asking the endpoints.
FetchInFlight == \E t \in Tasks : pc[t] = "fetch"

\* C23: once a call of fetch_all_tools has completed, whatever it fetched
\* (also nothing at all), the cache is set and a call made later asks no
\* endpoint and returns the cached catalog; with the completed call's requests
\* being the last ones, the catalog and the routing map stay as that call left
\* them: what was absent stays absent and un-routable.
C23_FirstFetchIsFinal ==
  /\ [](FetchCompleted => tools_cache # None)
  /\ [][FetchCompleted =>
          /\ \A t \in Tasks :
               pc[t] = "new" /\ pc'[t] # "new" =>
                 /\ pc'[t] # "fetch"
                 /\ replies'[t] = <<>>
                 /\ tools'[t] = tools_cache[1]
          /\ ~FetchInFlight =>
               /\ listCalls' = listCalls
               /\ tools_cache' = tools_cache
               /\ tool_to_server' = tool_to_server]_vars

\* Every endpoint failed during the first fetch; a run that started later has
\* got the empty catalog without asking any endpoint, and nothing is routable.
C23_Witness ==
  \E t \in Tasks :
    /\ HasCatalog(t)
    /\ replies[t] = <<>>
    /\ tools[t] = <<>>
    /\ tools_cache = Some(<<>>)
    /\ tool_to_server = <<>>
    /\ \A s \in DOMAIN MCP_SERVERS : listCalls[s] = 1

\* C24: whenever the shared catalog is populated, also by concurrent calls of
\* fetch_all_tools whose endpoints answer differently, the tools it offers
\* are the tools tool_to_server routes: the names of tools_cache are the keys
\* of tool_to_server.
C24_OfferedIsRoutable ==
  tools_cache # None =>
    {tools_cache[1][i].toolSpec.name : i \in DOMAIN tools_cache[1]}
      = DOMAIN tool_to_server

\* C25: however concurrent calls of fetch_all_tools interleave, every
\* configured endpoint gets at most one list-tools request, and every caller
\* that has its catalog has the same one.
C25_SingleFetch ==
  /\ \A s \in DOMAIN MCP_SERVERS : listCalls[s] <= 1
  /\ \A t, u \in Tasks :
       /\ pc[t] \in {"loop", "execute", "done"}
       /\ pc[u] \in {"loop", "execute", "done"}
       => tools[t] = tools[u]

====
